---- MODULE Spec2Model ----
(***************************************************************************)
(* Model of the traefik middleware in src/simulated.go.                    *)
(*                                                                         *)
(* SimulatedPlugin.ServeHTTP reads the inbound body, decodes it as a       *)
(* CreateThingRequest, POSTs a CreateSimulatedDeviceRequest to the IoT hub *)
(* and, when the hub answers 2xx, re-attaches the captured body and calls  *)
(* the next handler.  Every other path ends in http.NotFound.              *)
(*                                                                         *)
(* Byte strings are sequences of chunks (a chunk is a run of characters).  *)
(* A JSON text is a sequence of tokens; a string literal token carries its *)
(* raw (still escaped) contents, so that quoting and unquoting are real    *)
(* conversions.  Several ServeHTTP executions run concurrently on the one  *)
(* plugin value; an execution is split at its blocking I/O points.         *)
(***************************************************************************)
EXTENDS Integers, Sequences, FiniteSets, TLC

\* Number of ServeHTTP executions the host runs concurrently.
NumRequests == 2

Requests == 1..NumRequests

(***************************************************************************)
(* Characters that the JSON codec treats specially.                        *)
(***************************************************************************)
LT == "<"
DQ == "\""
EscLT == "\\u003c"
EscDQ == "\\\""
CTL == "\t"

(***************************************************************************)
(* JSON tokens.                                                            *)
(***************************************************************************)
P(c) == [t |-> c, v |-> <<>>]
S(raw) == [t |-> "str", v |-> raw]
Num(d) == [t |-> "num", v |-> <<d>>]
Null == [t |-> "null", v |-> <<>>]
Junk(c) == [t |-> "junk", v |-> <<c>>]
NL == [t |-> "ws", v |-> <<"\n">>]

LB == P("{")
RB == P("}")
Colon == P(":")
Comma == P(",")

(***************************************************************************)
(* encoding/json, decoding side.  JSON values are records                  *)
(* [k: kind, s: string contents, m: members].                              *)
(***************************************************************************)
JNull == [k |-> "null", s |-> <<>>, m |-> <<>>]
JString(s) == [k |-> "string", s |-> s, m |-> <<>>]
JNumber(d) == [k |-> "number", s |-> d, m |-> <<>>]
JObject(m) == [k |-> "object", s |-> <<>>, m |-> m]

\* One escape sequence of a string literal -> the character it denotes.
UnquoteChunk(c) ==
    IF c = EscLT THEN LT
    ELSE IF c = EscDQ THEN DQ
    ELSE c

\* Contents of a string literal -> the string it denotes.
Unquote(raw) == [n \in 1..Len(raw) |-> UnquoteChunk(raw[n])]

\* A string literal may not contain a bare quote or a control character.
ValidLiteral(raw) == \A n \in 1..Len(raw) : raw[n] \notin {DQ, CTL}

ParseFail == [ok |-> FALSE, val |-> JNull, next |-> 0]
ParseOk(val, next) == [ok |-> TRUE, val |-> val, next |-> next]

RECURSIVE ParseValue(_, _)
RECURSIVE ParseMembers(_, _, _)

\* Scan one JSON value of token sequence s starting at position p.
ParseValue(s, p) ==
    IF p > Len(s) THEN ParseFail
    ELSE LET tok == s[p] IN
         CASE tok.t = "str" ->
                  IF ValidLiteral(tok.v)
                  THEN ParseOk(JString(Unquote(tok.v)), p + 1)
                  ELSE ParseFail
           [] tok.t = "num" -> ParseOk(JNumber(tok.v), p + 1)
           [] tok.t = "null" -> ParseOk(JNull, p + 1)
           [] tok.t = "{" ->
                  IF p + 1 <= Len(s) /\ s[p + 1].t = "}"
                  THEN ParseOk(JObject(<<>>), p + 2)
                  ELSE ParseMembers(s, p + 1, <<>>)
           [] OTHER -> ParseFail

\* Scan  "key" : value  ( , "key" : value )*  }  with acc the members so far.
ParseMembers(s, p, acc) ==
    IF p + 1 > Len(s) \/ s[p].t # "str" \/ ~ValidLiteral(s[p].v) \/ s[p + 1].t # ":"
    THEN ParseFail
    ELSE LET r == ParseValue(s, p + 2) IN
         IF ~r.ok \/ r.next > Len(s) THEN ParseFail
         ELSE LET mem == Append(acc, [key |-> Unquote(s[p].v), val |-> r.val]) IN
              CASE s[r.next].t = "}" -> ParseOk(JObject(mem), r.next + 1)
                [] s[r.next].t = "," -> ParseMembers(s, r.next + 1, mem)
                [] OTHER -> ParseFail

\* Whitespace between tokens is skipped by the scanner.
SkipSpace(s) == SelectSeq(s, LAMBDA tok : tok.t # "ws")

\* Decoder.Decode reads the first JSON value of the stream and no more.
ReadValue(bytes) == ParseValue(SkipSpace(bytes), 1)

\* Field names match case-insensitively.
Lower(c) ==
    CASE c = "deviceLinkOperation" -> "devicelinkoperation"
      [] c = "DEVICELINKOPERATION" -> "devicelinkoperation"
      [] c = "Identifier" -> "identifier"
      [] c = "PRODUCT" -> "product"
      [] c = "hardwareId" -> "hardwareid"
      [] c = "productId" -> "productid"
      [] c = "simulatorType" -> "simulatortype"
      [] OTHER -> c

EqualFold(key, name) ==
    /\ Len(key) = Len(name)
    /\ \A n \in 1..Len(key) : Lower(key[n]) = Lower(name[n])

\* Decoding a JSON value into a Go string field: [err, v].
UnmarshalString(val, old) ==
    CASE val.k = "string" -> [err |-> FALSE, v |-> val.s]
      [] val.k = "null" -> [err |-> FALSE, v |-> old]
      [] OTHER -> [err |-> TRUE, v |-> old]

(***************************************************************************)
(* The payload types of src/simulated.go and their JSON bindings.          *)
(***************************************************************************)
ProductTracker == <<"TRACKER">>
SimulatorTypeManual == <<"MANUAL">>

\* Zero values of the Go structs.
ZeroDeviceLinkOperation == [HardwareId |-> <<>>, Product |-> <<>>]
ZeroCreateThingRequest == [DeviceLinkOperation |-> ZeroDeviceLinkOperation]

RECURSIVE UnmarshalDLOMembers(_, _, _)
\* Members n.. of a JSON object decoded into a DeviceLinkOperation.
UnmarshalDLOMembers(m, n, acc) ==
    IF n > Len(m) THEN acc
    ELSE LET key == m[n].key
             cur == acc.v
             r == IF EqualFold(key, <<"identifier">>)
                  THEN LET f == UnmarshalString(m[n].val, cur.HardwareId)
                       IN [err |-> f.err, v |-> [cur EXCEPT !.HardwareId = f.v]]
                  ELSE IF EqualFold(key, <<"product">>)
                  THEN LET f == UnmarshalString(m[n].val, cur.Product)
                       IN [err |-> f.err, v |-> [cur EXCEPT !.Product = f.v]]
                  ELSE [err |-> FALSE, v |-> cur]
         IN UnmarshalDLOMembers(m, n + 1, [err |-> acc.err \/ r.err, v |-> r.v])

\* A JSON value decoded into a DeviceLinkOperation (json tags, lines 35-38).
DeviceLinkOperation(val, old) ==
    CASE val.k = "object" -> UnmarshalDLOMembers(val.m, 1, [err |-> FALSE, v |-> old])
      [] val.k = "null" -> [err |-> FALSE, v |-> old]
      [] OTHER -> [err |-> TRUE, v |-> old]

RECURSIVE UnmarshalCTRMembers(_, _, _)
\* Members n.. of a JSON object decoded into a CreateThingRequest.
UnmarshalCTRMembers(m, n, acc) ==
    IF n > Len(m) THEN acc
    ELSE LET cur == acc.v
             r == IF EqualFold(m[n].key, <<"deviceLinkOperation">>)
                  THEN LET f == DeviceLinkOperation(m[n].val, cur.DeviceLinkOperation)
                       IN [err |-> f.err, v |-> [cur EXCEPT !.DeviceLinkOperation = f.v]]
                  ELSE [err |-> FALSE, v |-> cur]
         IN UnmarshalCTRMembers(m, n + 1, [err |-> acc.err \/ r.err, v |-> r.v])

\* A JSON value decoded into a CreateThingRequest (json tag, lines 31-33).
CreateThingRequest(val) ==
    CASE val.k = "object" ->
             UnmarshalCTRMembers(val.m, 1, [err |-> FALSE, v |-> ZeroCreateThingRequest])
      [] val.k = "null" -> [err |-> FALSE, v |-> ZeroCreateThingRequest]
      [] OTHER -> [err |-> TRUE, v |-> ZeroCreateThingRequest]

\* d.Decode(cr) of lines 101-103: [err, v].
Decode(bytes) ==
    LET r == ReadValue(bytes) IN
    IF r.ok THEN CreateThingRequest(r.val)
    ELSE [err |-> TRUE, v |-> ZeroCreateThingRequest]

(***************************************************************************)
(* encoding/json, encoding side.                                           *)
(***************************************************************************)
\* One character of a string -> its form inside a string literal.
QuoteChunk(c) ==
    IF c = LT THEN EscLT
    ELSE IF c = DQ THEN EscDQ
    ELSE c

Quote(str) == [n \in 1..Len(str) |-> QuoteChunk(str[n])]

\* The request of lines 117-121.
CreateSimulatedDeviceRequest_wrongFields(cr) ==
    [HardwareId |-> cr.DeviceLinkOperation.Product,
     Product |-> cr.DeviceLinkOperation.HardwareId,
     SimulatorType |-> SimulatorTypeManual]

CreateSimulatedDeviceRequest(cr) ==
    [HardwareId |-> cr.DeviceLinkOperation.HardwareId,
     Product |-> cr.DeviceLinkOperation.Product,
     SimulatorType |-> SimulatorTypeManual]

\* e.Encode(csdr) of lines 123-125 (json tags, lines 40-44; Encode ends the
\* value with a newline).  Strings always encode, so there is no error result.
Encode(csdr) ==
    << LB, S(<<"hardwareId">>), Colon, S(Quote(csdr.HardwareId)), Comma,
       S(<<"productId">>), Colon, S(Quote(csdr.Product)), Comma,
       S(<<"simulatorType">>), Colon, S(Quote(csdr.SimulatorType)), RB, NL >>

RECURSIVE Lookup(_, _, _)
\* The value of the last member of m named key (exactly), or JNull.
Lookup(m, n, key) ==
    IF n = 0 THEN JNull
    ELSE IF m[n].key = key THEN m[n].val
    ELSE Lookup(m, n - 1, key)

\* What the IoT hub reads off the wire: the outbound body deserialized.
Deserialize(bytes) ==
    LET r == ReadValue(bytes) IN
    IF r.ok /\ r.val.k = "object"
    THEN [ok |-> TRUE,
          hardwareId |-> Lookup(r.val.m, Len(r.val.m), <<"hardwareId">>),
          productId |-> Lookup(r.val.m, Len(r.val.m), <<"productId">>),
          simulatorType |-> Lookup(r.val.m, Len(r.val.m), <<"simulatorType">>)]
    ELSE [ok |-> FALSE, hardwareId |-> JNull, productId |-> JNull, simulatorType |-> JNull]

(***************************************************************************)
(* net/http headers and net/url.                                           *)
(***************************************************************************)
SubscriptionKeyHeader == "X-Subscription-Key"

\* textproto.CanonicalMIMEHeaderKey.
CanonicalKey(k) ==
    CASE k = "x-subscription-key" -> "X-Subscription-Key"
      [] k = "accept" -> "Accept"
      [] OTHER -> k

\* The header with no keys.
EmptyHeader == [k \in {} |-> <<>>]

\* Header.Add: append value to the values of the canonical key.
HeaderAdd(h, key, value) ==
    LET k == CanonicalKey(key) IN
    [x \in DOMAIN h \cup {k} |->
        IF x = k
        THEN (IF k \in DOMAIN h THEN Append(h[k], value) ELSE <<value>>)
        ELSE h[x]]

\* Header.Set: the canonical key gets value as its only value.
HeaderSet_add(h, key, value) == HeaderAdd(h, key, value)

HeaderSet(h, key, value) ==
    LET k == CanonicalKey(key) IN
    [x \in DOMAIN h \cup {k} |-> IF x = k THEN <<value>> ELSE h[x]]

RECURSIVE AddValues(_, _, _, _)
\* The inner loop of lines 138-140 from value n on.
AddValues(h, key, values, n) ==
    IF n > Len(values) THEN h
    ELSE AddValues(HeaderAdd(h, key, values[n]), key, values, n + 1)

RECURSIVE CopyHeader(_, _, _, _)
\* The loop of lines 137-141, visiting the keys of src in the given order.
CopyHeader(dst, src, order, n) ==
    IF n > Len(order) THEN dst
    ELSE CopyHeader(AddValues(dst, order[n], src[order[n]], 1), src, order, n + 1)

\* The orders in which a range over a Go map may visit its keys.
RangeOrders(K) ==
    {o \in [1..Cardinality(K) -> K] :
        \A a, b \in 1..Cardinality(K) : a # b => o[a] # o[b]}

PathSuffix == <<"/simulator/simulated/device">>

\* url.Parse of line 110: control characters and a leading colon are errors.
ParseURL(str) ==
    [err |-> \/ \E n \in 1..Len(str) : str[n] = CTL
             \/ (Len(str) > 0 /\ str[1] = ":"),
     String |-> str]

\* http.NewRequest of line 131.
NewRequest(method, url, bytes) ==
    [Method |-> method, URL |-> url, Header |-> EmptyHeader, Body |-> bytes]

(***************************************************************************)
(* The status test of line 150.                                            *)
(***************************************************************************)
StatusOk_offByOne(status) == ~(status > 300 \/ status < 200)

StatusOk(status) == ~(status >= 300 \/ status < 200)

(***************************************************************************)
(* Logging, lines 178-200.  The log functions build a LogEvent and return  *)
(* it; only print writes to standard output.                               *)
(***************************************************************************)
newLogEvent(level, msg) == [Level |-> level, Msg |-> msg]
logWarn(msg) == newLogEvent("warn", msg)
logError(msg) == newLogEvent("error", msg)
print(out, logEvent) == Append(out, logEvent)

(***************************************************************************)
(* Inputs.                                                                 *)
(***************************************************************************)
Payload(key, identifier, product) ==
    << LB, S(<<key>>), Colon,
       LB, S(<<"identifier">>), Colon, S(identifier), Comma,
           S(<<"product">>), Colon, S(product), RB,
       RB >>

BodyEmpty == <<>>
BodyNotJson == <<Junk("not"), Junk("json")>>
BodyJsonString == <<S(<<"not json">>)>>
BodyNoKey == <<LB, RB>>
BodyWrongType ==
    <<LB, S(<<"deviceLinkOperation">>), Colon, LB, S(<<"identifier">>), Colon, Num("7"), RB, RB>>
BodyDev123 == Payload("deviceLinkOperation", <<"dev-123">>, ProductTracker)
BodyDevLT == Payload("DEVICELINKOPERATION", <<"dev", LT, EscDQ, "9">>, <<"BEACON">>) \o <<NL, Junk("x")>>

HeaderPlain == [k \in {"Accept"} |-> <<"application/json">>]
HeaderCaller == [k \in {"X-Subscription-Key"} |-> <<"caller-key">>]
HeaderMulti ==
    [k \in {"X-Subscription-Key", "x-subscription-key", "Accept"} |->
        CASE k = "X-Subscription-Key" -> <<"caller-key", "other-key">>
          [] k = "x-subscription-key" -> <<"third-key">>
          [] OTHER -> <<"text/plain">>]

\* The requests a caller may send.
InboundRequests ==
    { [Body |-> BodyEmpty, Header |-> HeaderPlain],
      [Body |-> BodyNotJson, Header |-> HeaderPlain],
      [Body |-> BodyJsonString, Header |-> HeaderCaller],
      [Body |-> BodyNoKey, Header |-> HeaderPlain],
      [Body |-> BodyWrongType, Header |-> HeaderPlain],
      [Body |-> BodyDev123, Header |-> HeaderCaller],
      [Body |-> BodyDevLT, Header |-> HeaderMulti] }

\* The configurations the host may construct the plugin with.
Configs ==
    { [IotHubUrl |-> <<"http://hub.example">>, SubscriptionKey |-> "configured-key"],
      [IotHubUrl |-> <<"http://hub", CTL, ".example">>, SubscriptionKey |-> "configured-key"] }

NoResponse == [err |-> FALSE, StatusCode |-> 0, readable |-> FALSE, Body |-> <<>>]

\* What client.Do may return for outbound request req: a transport error or
\* timeout, or the hub's response.
HubOutcomes(req) ==
    { [err |-> TRUE, StatusCode |-> 0, readable |-> FALSE, Body |-> <<>>],
      [err |-> FALSE, StatusCode |-> 199, readable |-> TRUE, Body |-> <<Junk("early")>>],
      [err |-> FALSE, StatusCode |-> 300, readable |-> TRUE, Body |-> <<Junk("moved")>>],
      [err |-> FALSE, StatusCode |-> 200, readable |-> FALSE, Body |-> <<Junk("created")>>],
      [err |-> FALSE, StatusCode |-> 200, readable |-> TRUE, Body |-> <<Junk("created")>>],
      [err |-> FALSE, StatusCode |-> 201, readable |-> TRUE, Body |-> req.Body],
      [err |-> FALSE, StatusCode |-> 299, readable |-> TRUE, Body |-> <<>>] }

(***************************************************************************)
(* State.                                                                  *)
(*   plugin   the SimulatedPlugin value (next and client are fixed)        *)
(*   pc       where each ServeHTTP execution stands                        *)
(*   inbound  the request as its caller sent it                            *)
(*   rBody    what is left to read of r.Body                               *)
(*   body     the local variable body of line 94                           *)
(*   cr       the local variable cr of line 102                            *)
(*   sent     the requests handed to plugin.client.Do                      *)
(*   resp     what plugin.client.Do returned                               *)
(*   w        the status codes this component wrote to the ResponseWriter  *)
(*   next     the bodies plugin.next.ServeHTTP was invoked with            *)
(*   events   the LogEvents each execution built                           *)
(*   stdout   the lines written to standard output                         *)
(***************************************************************************)
VARIABLES plugin, pc, inbound, rBody, body, cr, sent, resp, w, next, events, stdout

vars == <<plugin, pc, inbound, rBody, body, cr, sent, resp, w, next, events, stdout>>

\* New, lines 79-90.
New(config) ==
    [iotHubUrl |-> config.IotHubUrl, subscriptionKey |-> config.SubscriptionKey]

Init ==
    /\ plugin \in {New(c) : c \in Configs}
    /\ pc = [i \in Requests |-> "idle"]
    /\ inbound = [i \in Requests |-> [Body |-> <<>>, Header |-> EmptyHeader]]
    /\ rBody = [i \in Requests |-> <<>>]
    /\ body = [i \in Requests |-> <<>>]
    /\ cr = [i \in Requests |-> ZeroCreateThingRequest]
    /\ sent = [i \in Requests |-> <<>>]
    /\ resp = [i \in Requests |-> NoResponse]
    /\ w = [i \in Requests |-> <<>>]
    /\ next = [i \in Requests |-> <<>>]
    /\ events = [i \in Requests |-> <<>>]
    /\ stdout = <<>>

\* http.NotFound(w, r).
NotFound_serverError(rw) == Append(rw, 500)

NotFound(rw) == Append(rw, 404)

\* The assignment to body of line 94: body is local to the execution.
StoreBody_shared(buf, i, bytes) == [j \in Requests |-> bytes]

StoreBody(buf, i, bytes) == [buf EXCEPT ![i] = bytes]

\* NoOpCloser(bytes.NewReader(body)), lines 163 and 167-176: a fresh stream
\* over the captured bytes; stream is what r.Body held before.
NoOpCloser_notRestored(bytes, stream) == stream

NoOpCloser(bytes, stream) == bytes

\* plugin.client.Do(req), line 144: one call, no retry.
Do_retry(calls, req) == Append(Append(calls, req), req)

Do(calls, req) == Append(calls, req)

\* The host hands a request to ServeHTTP (line 92).
Arrive(i) ==
    /\ pc[i] = "idle"
    /\ \E q \in InboundRequests :
          /\ inbound' = [inbound EXCEPT ![i] = q]
          /\ rBody' = [rBody EXCEPT ![i] = q.Body]
    /\ pc' = [pc EXCEPT ![i] = "read"]
    /\ UNCHANGED <<plugin, body, cr, sent, resp, w, next, events, stdout>>

\* io.ReadAll(r.Body), lines 94-99.
ReadBody(i) ==
    /\ pc[i] = "read"
    /\ \E ok \in BOOLEAN :
          IF ok
          THEN /\ body' = StoreBody(body, i, rBody[i])
               /\ rBody' = [rBody EXCEPT ![i] = <<>>]
               /\ pc' = [pc EXCEPT ![i] = "decode"]
               /\ UNCHANGED <<w, events>>
          ELSE /\ events' = [events EXCEPT ![i] = Append(@, logError("error reading body"))]
               /\ w' = [w EXCEPT ![i] = NotFound(@)]
               /\ pc' = [pc EXCEPT ![i] = "done"]
               /\ UNCHANGED <<body, rBody>>
    /\ UNCHANGED <<plugin, inbound, cr, sent, resp, next, stdout>>

\* The outbound request of lines 131-142 for payload c, the inbound header
\* being visited in the given order.
OutboundRequest(c, url, header, order) ==
    LET req == NewRequest("POST", url, Encode(CreateSimulatedDeviceRequest(c)))
        copied == CopyHeader(req.Header, header, order, 1)
    IN [req EXCEPT !.Header = HeaderSet(copied, SubscriptionKeyHeader, plugin.subscriptionKey)]

\* Decode, build and send: lines 101-144, up to the call of client.Do.
BuildAndSend(i) ==
    /\ pc[i] = "decode"
    /\ LET d == Decode(body[i])
           url == ParseURL(plugin.iotHubUrl \o PathSuffix)
       IN /\ cr' = [cr EXCEPT ![i] = d.v]
          /\ IF d.err
             THEN /\ events' = [events EXCEPT ![i] = Append(@, logError("error decoding body"))]
                  /\ w' = [w EXCEPT ![i] = NotFound(@)]
                  /\ pc' = [pc EXCEPT ![i] = "done"]
                  /\ UNCHANGED sent
             ELSE IF url.err
             THEN /\ events' = [events EXCEPT ![i] =
                                   Append(Append(@, logWarn("found deviceId")),
                                          logError("error creating url"))]
                  /\ w' = [w EXCEPT ![i] = NotFound(@)]
                  /\ pc' = [pc EXCEPT ![i] = "done"]
                  /\ UNCHANGED sent
             ELSE /\ events' = [events EXCEPT ![i] = Append(@, logWarn("found deviceId"))]
                  /\ \E order \in RangeOrders(DOMAIN inbound[i].Header) :
                        sent' = [sent EXCEPT ![i] =
                                    Do(@, OutboundRequest(d.v, url.String, inbound[i].Header, order))]
                  /\ pc' = [pc EXCEPT ![i] = "await"]
                  /\ UNCHANGED w
    /\ UNCHANGED <<plugin, inbound, rBody, body, resp, next, stdout>>

\* The stage at which lines 145-160 fail for response r, or "forward".
Verdict_unreadIgnored(r) ==
    IF r.err THEN "error performing request to iothub"
    ELSE IF ~StatusOk(r.StatusCode) THEN "iot hub status code error"
    ELSE "forward"

Verdict(r) ==
    IF r.err THEN "error performing request to iothub"
    ELSE IF ~StatusOk(r.StatusCode) THEN "iot hub status code error"
    ELSE IF ~r.readable THEN "error reading iot hub response"
    ELSE "forward"

\* plugin.client.Do returns (the hub answered, or the transport failed or
\* timed out) and the handler runs to its end: lines 144-164.
CheckAndForward(i) ==
    /\ pc[i] = "await"
    /\ \E o \in HubOutcomes(sent[i][Len(sent[i])]) :
          /\ resp' = [resp EXCEPT ![i] = o]
          /\ LET v == Verdict(o) IN
             IF v # "forward"
             THEN /\ events' = [events EXCEPT ![i] = Append(@, logError(v))]
                  /\ w' = [w EXCEPT ![i] = NotFound(@)]
                  /\ UNCHANGED <<rBody, next>>
             ELSE /\ events' = [events EXCEPT ![i] = Append(@, logError("iot hub device created"))]
                  /\ rBody' = [rBody EXCEPT ![i] = NoOpCloser(body[i], @)]
                  /\ next' = [next EXCEPT ![i] = Append(@, rBody'[i])]
                  /\ UNCHANGED w
    /\ pc' = [pc EXCEPT ![i] = "done"]
    /\ UNCHANGED <<plugin, inbound, body, cr, sent, stdout>>

Next ==
    \E i \in Requests :
        \/ Arrive(i)
        \/ ReadBody(i)
        \/ BuildAndSend(i)
        \/ CheckAndForward(i)

Spec == Init /\ [][Next]_vars

(***************************************************************************)
(* Vocabulary of the properties.                                           *)
(***************************************************************************)
Done(i) == pc[i] = "done"
Forwarded(i) == Len(next[i]) > 0
RespondedNotFound(i) == w[i] = <<404>> /\ next[i] = <<>>
Called(i) == Len(sent[i]) > 0
Success(s) == s \in 200..299

\* The stages at which the handling of request i failed.
BodyReadFailed(i) == events[i] # <<>> /\ events[i][1].Msg = "error reading body"
DecodeFails(i) == Decode(inbound[i].Body).err
URLFails == ParseURL(plugin.iotHubUrl \o PathSuffix).err
TransportFailed(i) == Called(i) /\ Done(i) /\ resp[i].err
StatusOutside(i) ==
    Called(i) /\ Done(i) /\ ~resp[i].err /\ ~Success(resp[i].StatusCode)
ResponseUnreadable(i) ==
    Called(i) /\ Done(i) /\ ~resp[i].err /\ ~resp[i].readable

\* The identifier and product the caller of request i submitted.
Submitted(i) == Decode(inbound[i].Body).v.DeviceLinkOperation

\* C1: a valid payload whose provisioning call came back 2xx with a readable
\* body reaches the next handler exactly once, with the body the caller sent.
C1_ForwardsOriginalBody ==
    \A i \in Requests :
        ( /\ Done(i) /\ ~DecodeFails(i) /\ Called(i)
          /\ ~resp[i].err /\ Success(resp[i].StatusCode) /\ resp[i].readable )
        => next[i] = <<inbound[i].Body>>

C1_Witness ==
    \E i \in Requests :
        /\ Done(i) /\ Success(resp[i].StatusCode) /\ resp[i].readable
        /\ inbound[i].Body = BodyDev123
        /\ next[i] = <<BodyDev123>>
        /\ sent[i][1].Body # BodyDev123
        /\ resp[i].Body = sent[i][1].Body

\* What the claim C2 calls a payload that fails parsing: not a JSON text, or
\* no object with a deviceLinkOperation key.
LacksDeviceLinkOperation(bytes) ==
    LET r == ReadValue(bytes) IN
    \/ ~r.ok
    \/ r.val.k # "object"
    \/ ~\E n \in 1..Len(r.val.m) : EqualFold(r.val.m[n].key, <<"deviceLinkOperation">>)

\* C2: a payload that fails parsing (empty, not JSON, no deviceLinkOperation
\* key) gets a not-found response and never reaches the next handler.
C2_ParseFailureNotFound ==
    \A i \in Requests :
        (Done(i) /\ LacksDeviceLinkOperation(inbound[i].Body)) => RespondedNotFound(i)

\* C3: a failure at any stage ends in a 404 and the next handler is not called.
C3_FailureIsNotFound ==
    \A i \in Requests :
        ( /\ Done(i)
          /\ \/ BodyReadFailed(i) \/ DecodeFails(i) \/ URLFails
             \/ TransportFailed(i) \/ StatusOutside(i) \/ ResponseUnreadable(i) )
        => RespondedNotFound(i)

C3_Witness ==
    \E i, j \in Requests :
        /\ Done(i) /\ TransportFailed(i) /\ RespondedNotFound(i)
        /\ Done(j) /\ BodyReadFailed(j) /\ RespondedNotFound(j)

C5_SubscriptionKeyConfigured ==
    \A i \in Requests : \A n \in 1..Len(sent[i]) :
        LET h == sent[i][n].Header IN
        /\ SubscriptionKeyHeader \in DOMAIN h
        /\ h[SubscriptionKeyHeader] = <<plugin.subscriptionKey>>
        /\ \A k \in DOMAIN h :
              CanonicalKey(k) = SubscriptionKeyHeader => k = SubscriptionKeyHeader

C5_Witness ==
    \E i \in Requests :
        /\ Called(i)
        /\ inbound[i].Header = HeaderMulti
        /\ sent[i][1].Header[SubscriptionKeyHeader] = <<"configured-key">>
        /\ sent[i][1].Header["Accept"] = <<"text/plain">>

\* C6: the outbound body deserializes to hardwareId = the inbound identifier,
\* productId = the inbound product, simulatorType = "MANUAL".
C6_OutboundPayload ==
    \A i \in Requests : \A n \in 1..Len(sent[i]) :
        LET out == Deserialize(sent[i][n].Body)
            in == Submitted(i)
        IN
        /\ out.ok
        /\ out.hardwareId = JString(in.HardwareId)
        /\ out.productId = JString(in.Product)
        /\ out.simulatorType = JString(<<"MANUAL">>)
        /\ sent[i][n].Method = "POST"

C6_Witness ==
    \E i, j \in Requests :
        /\ Called(i) /\ inbound[i].Body = BodyDev123
        /\ Deserialize(sent[i][1].Body).hardwareId = JString(<<"dev-123">>)
        /\ Deserialize(sent[i][1].Body).productId = JString(<<"TRACKER">>)
        /\ Called(j) /\ inbound[j].Body = BodyDevLT
        /\ Deserialize(sent[j][1].Body).hardwareId = JString(<<"dev", LT, DQ, "9">>)

\* The request got as far as line 144.
ReachedDo(i) ==
    \/ pc[i] = "await"
    \/ Done(i) /\ ~BodyReadFailed(i) /\ ~DecodeFails(i) /\ ~URLFails

\* C7 as stated: every handled request makes exactly one outbound call.
C7_ExactlyOneCall == \A i \in Requests : Done(i) => Len(sent[i]) = 1

\* C7 amended: at most one call of client.Do per request, exactly one when
\* body read, decode and URL build succeed and none otherwise, and nothing is
\* answered or forwarded while the call is outstanding.
C7_AtMostOneCall ==
    \A i \in Requests :
        /\ Len(sent[i]) = (IF ReachedDo(i) THEN 1 ELSE 0)
        /\ pc[i] = "await" => (w[i] = <<>> /\ next[i] = <<>>)

C7_Witness ==
    \E i, j \in Requests :
        /\ Done(i) /\ Len(sent[i]) = 1
        /\ Done(j) /\ DecodeFails(j) /\ ~BodyReadFailed(j) /\ Len(sent[j]) = 0

\* C8: every log record built at a decision point has been written to
\* standard output by the time the request is done.
C8_LogsWritten ==
    \A i \in Requests :
        Done(i) => \A n \in 1..Len(events[i]) :
                       \E m \in 1..Len(stdout) : stdout[m] = events[i][n]

\* C9: under any interleaving each forwarded request reaches the next handler
\* with its own body, each outbound call carries its own identifier, and the
\* plugin's fields are never written.
Isolated ==
    \A i \in Requests :
        /\ \A n \in 1..Len(next[i]) : next[i][n] = inbound[i].Body
        /\ \A n \in 1..Len(sent[i]) :
              Deserialize(sent[i][n].Body).hardwareId = JString(Submitted(i).HardwareId)

C9_NoLeakBetweenRequests == [](Isolated) /\ [][plugin' = plugin]_vars

C9_Witness ==
    \E i, j \in Requests :
        /\ i # j /\ Forwarded(i) /\ Forwarded(j)
        /\ inbound[i].Body = BodyDev123 /\ inbound[j].Body = BodyDevLT
        /\ next[i] = <<BodyDev123>> /\ next[j] = <<BodyDevLT>>

\* C10: a finished execution has either written one 404 or called the next
\* handler once, never both or neither; and the next handler is only called
\* after one provisioning call that returned 2xx with a readable body.
C10_OneOutcome ==
    \A i \in Requests :
        /\ Done(i) => \/ (w[i] = <<404>> /\ next[i] = <<>>)
                      \/ (w[i] = <<>> /\ Len(next[i]) = 1)
        /\ ~Done(i) => (w[i] = <<>> /\ next[i] = <<>>)
        /\ Forwarded(i) => /\ Len(sent[i]) = 1
                           /\ ~resp[i].err
                           /\ Success(resp[i].StatusCode)
                           /\ resp[i].readable

C10_Witness ==
    \E i, j \in Requests :
        /\ Done(i) /\ w[i] = <<404>> /\ next[i] = <<>> /\ ResponseUnreadable(i)
        /\ Done(j) /\ w[j] = <<>> /\ Len(next[j]) = 1
====
